---------------------------- MODULE Spec2Model ----------------------------
(***************************************************************************)
(* Model of the matching engine of rustmatch (src/src/lib.rs): integral    *)
(* image, template profile, NCC primitive, full search, region search,     *)
(* downsampler, pyramid strategy and multi-match strategy.                 *)
(*                                                                         *)
(* Arithmetic.  The engine computes in f64.  The model computes in exact   *)
(* arithmetic: a pixel buffer is a sequence of integer numerators over a   *)
(* common denominator q (q = 1 for decoded images, q = scale^2 after       *)
(* downsample), and an NCC score is kept as the exact real number          *)
(*      sg * sqrt(sq / d)                                                  *)
(* with sg in {-1, 0, 1} and sq, d natural numbers.  Natural numbers that  *)
(* can exceed the machine integers of the checker are kept as sequences of *)
(* base-Base limbs.  Floating-point roundoff is not modelled.              *)
(***************************************************************************)
EXTENDS Integers, Sequences, FiniteSets, TLC

(***************************************************************************)
(* Exact natural numbers (little-endian limbs, no leading zero limb).      *)
(***************************************************************************)
Base == 100 * 100

RECURSIVE BFromNat(_)
BFromNat(n) == IF n = 0 THEN <<>> ELSE <<n % Base>> \o BFromNat(n \div Base)

RECURSIVE BAddC(_, _, _)
BAddC(a, b, c) ==
    IF a = <<>> /\ b = <<>>
    THEN (IF c = 0 THEN <<>> ELSE <<c>>)
    ELSE LET x == IF a = <<>> THEN 0 ELSE Head(a)
             y == IF b = <<>> THEN 0 ELSE Head(b)
             s == x + y + c
         IN  <<s % Base>> \o BAddC(IF a = <<>> THEN a ELSE Tail(a),
                                   IF b = <<>> THEN b ELSE Tail(b),
                                   s \div Base)

BAdd(a, b) == BAddC(a, b, 0)

RECURSIVE BMulSmallC(_, _, _)
BMulSmallC(a, m, c) ==
    IF a = <<>>
    THEN (IF c = 0 THEN <<>> ELSE <<c>>)
    ELSE LET p == Head(a) * m + c
         IN  <<p % Base>> \o BMulSmallC(Tail(a), m, p \div Base)

RECURSIVE BMul(_, _)
BMul(a, b) ==
    IF a = <<>> \/ b = <<>> THEN <<>>
    ELSE LET rest == BMul(a, Tail(b))
             shifted == IF rest = <<>> THEN <<>> ELSE <<0>> \o rest
         IN  BAdd(BMulSmallC(a, Head(b), 0), shifted)

RECURSIVE BCmpFrom(_, _, _)
BCmpFrom(a, b, i) ==
    IF i = 0 THEN 0
    ELSE IF a[i] > b[i] THEN 1
    ELSE IF a[i] < b[i] THEN -1
    ELSE BCmpFrom(a, b, i - 1)

RECURSIVE BSubB(_, _, _)
\* a - b for a >= b, before stripping leading zero limbs
BSubB(a, b, br) ==
    IF a = <<>> THEN <<>>
    ELSE LET y == IF b = <<>> THEN 0 ELSE Head(b)
             s == Head(a) - y - br
         IN  <<IF s < 0 THEN s + Base ELSE s>>
             \o BSubB(Tail(a), IF b = <<>> THEN b ELSE Tail(b), IF s < 0 THEN 1 ELSE 0)

RECURSIVE BStrip(_)
BStrip(a) ==
    IF a = <<>> THEN a
    ELSE IF a[Len(a)] = 0 THEN BStrip(SubSeq(a, 1, Len(a) - 1))
    ELSE a

BSub(a, b) == BStrip(BSubB(a, b, 0))

\* -1, 0, 1 as a < b, a = b, a > b
BCmp(a, b) ==
    IF Len(a) > Len(b) THEN 1
    ELSE IF Len(a) < Len(b) THEN -1
    ELSE BCmpFrom(a, b, Len(a))

\* the product of two machine naturals, exactly
BProd(m, n) == BMul(BFromNat(m), BFromNat(n))

Abs(n) == IF n < 0 THEN -n ELSE n
Min(a, b) == IF a < b THEN a ELSE b
Max(a, b) == IF a > b THEN a ELSE b

(***************************************************************************)
(* Scores: the f64 confidence values.                                      *)
(***************************************************************************)
\* the literal 0.0 returned for a flat window, the literal -1.0 of the
\* initial row_best / best / reduction identity, and 1.0
ScoreZero == [sg |-> 0, sq |-> <<>>, d |-> <<1>>]
ScoreMinusOne == [sg |-> -1, sq |-> <<1>>, d |-> <<1>>]
ScoreOne == [sg |-> 1, sq |-> <<1>>, d |-> <<1>>]

\* a > b on f64 scores
ScoreGt(a, b) ==
    IF a.sg # b.sg THEN a.sg > b.sg
    ELSE IF a.sg = 0 THEN FALSE
    ELSE LET c == BCmp(BMul(a.sq, b.d), BMul(b.sq, a.d))
         IN  IF a.sg = 1 THEN c = 1 ELSE c = -1

ScoreGe(a, b) == ~ScoreGt(b, a)
ScoreEq(a, b) == ~ScoreGt(a, b) /\ ~ScoreGt(b, a)

\* a threshold is the rational t[1] / t[2] with t[2] > 0; Times(t, m, n) is
\* the product  t * (m / n)  (threshold * 0.5, threshold * 0.9)
Times(t, m, n) == <<t[1] * m, t[2] * n>>
ThScore(t) ==
    [sg |-> IF t[1] > 0 THEN 1 ELSE IF t[1] < 0 THEN -1 ELSE 0,
     sq |-> BProd(Abs(t[1]), Abs(t[1])),
     d  |-> BProd(t[2], t[2])]

(***************************************************************************)
(* Pixel buffers.  The code indexes Vec<f64> from 0; At reads index i.     *)
(***************************************************************************)
At(data, i) == data[i + 1]

(***************************************************************************)
(* Loops.  A loop of the code over a range lo .. hi - 1 whose body is f    *)
(* is written  L(lo, hi) == IF hi - lo = 1 THEN f(lo)                      *)
(*                          ELSE L(lo, mid) followed by L(mid, hi):        *)
(* the body runs for lo, lo + 1, ..., hi - 1 in this order, as in the      *)
(* code, and the evaluation depth stays logarithmic in the range.          *)
(***************************************************************************)
Mid(lo, hi) == lo + (hi - lo) \div 2

(***************************************************************************)
(* Integral image (struct IntegralImage, IntegralImage::new, get_stats).   *)
(* The arrays are written in index order: entry idx of row y + 1 is either *)
(* column 0, which keeps the zero of vec![0.0; size], or the loop body at  *)
(* (x, y).  sq = TRUE fills sq_sum (v * v), sq = FALSE fills sum (v).      *)
(***************************************************************************)
RECURSIVE IntegralFill(_, _, _, _, _)
\* arr holds the entries 0 .. Len(arr) - 1; the entries up to hi - 1 are appended
IntegralFill(data, w, arr, hi, sq) ==
    LET lo == Len(arr)
    IN  IF hi <= lo THEN arr
        ELSE IF hi - lo = 1
        THEN LET width == w + 1
                 x == (lo % width) - 1
                 y == (lo \div width) - 1
             IN  IF x < 0 THEN Append(arr, 0)
                 ELSE LET v == At(data, y * w + x)
                          idx_up == y * width + (x + 1)
                          idx_left == (y + 1) * width + x
                          idx_diag == y * width + x
                      IN  Append(arr, (IF sq THEN v * v ELSE v) + At(arr, idx_up)
                                      + At(arr, idx_left) - At(arr, idx_diag))
        ELSE IntegralFill(data, w, IntegralFill(data, w, arr, Mid(lo, hi), sq), hi, sq)

IntegralImage_new(data, w, h) ==
    LET width == w + 1
        size == width * (h + 1)
        zeros == [i \in 1..width |-> 0]
    IN  [sum    |-> IntegralFill(data, w, zeros, size, FALSE),
         sq_sum |-> IntegralFill(data, w, zeros, size, TRUE),
         width  |-> width]

\* get_stats with the corner (x, y) subtracted instead of added
get_stats_corner_sign(ii, x, y, w, h) ==
    LET idx1 == y * ii.width + x
        idx2 == y * ii.width + (x + w)
        idx3 == (y + h) * ii.width + x
        idx4 == (y + h) * ii.width + (x + w)
    IN  <<At(ii.sum, idx4) - At(ii.sum, idx2) - At(ii.sum, idx3) - At(ii.sum, idx1),
          At(ii.sq_sum, idx4) - At(ii.sq_sum, idx2) - At(ii.sq_sum, idx3)
              - At(ii.sq_sum, idx1)>>

get_stats(ii, x, y, w, h) ==
    LET idx1 == y * ii.width + x
        idx2 == y * ii.width + (x + w)
        idx3 == (y + h) * ii.width + x
        idx4 == (y + h) * ii.width + (x + w)
    IN  <<At(ii.sum, idx4) - At(ii.sum, idx2) - At(ii.sum, idx3) + At(ii.sum, idx1),
          At(ii.sq_sum, idx4) - At(ii.sq_sum, idx2) - At(ii.sq_sum, idx3)
              + At(ii.sq_sum, idx1)>>

(***************************************************************************)
(* Template profile (struct Template, Template::new).  With n = w * h,     *)
(* sum = SUM data and sq_sum = SUM data^2 (numerators over q and q^2):     *)
(*   mean = sum / (n q),  var = dvar / (n q)^2 with dvar = n sq_sum - sum^2*)
(*   normalized[i] = (n data[i] - sum) / (n q),                            *)
(*   inv_std_n = 1 / (std n),  std = sqrt(var)  (1e-10 when var = 0).      *)
(* The record keeps data, sum and dvar, from which normalized and          *)
(* inv_std_n are determined.                                               *)
(***************************************************************************)
RECURSIVE SumRange(_, _, _, _)
\* SUM data[i] (sq = FALSE) or SUM data[i]^2 (sq = TRUE) for i in lo .. hi - 1
SumRange(data, lo, hi, sq) ==
    IF hi <= lo THEN 0
    ELSE IF hi - lo = 1
    THEN LET v == At(data, lo) IN IF sq THEN v * v ELSE v
    ELSE SumRange(data, lo, Mid(lo, hi), sq) + SumRange(data, Mid(lo, hi), hi, sq)

Template_new(data, w, h) ==
    LET n == w * h
        sum == SumRange(data, 0, Len(data), FALSE)
        sq_sum == SumRange(data, 0, Len(data), TRUE)
    IN  [data |-> data, width |-> w, height |-> h, sum |-> sum,
         dvar |-> BSub(BProd(n, sq_sum), BProd(sum, sum))]

(***************************************************************************)
(* NCC primitive (compute_ncc).  q is the denominator of the source        *)
(* buffer.  With (S, Q) = get_stats:                                       *)
(*   s_var = dsvar / (n q)^2,  dsvar = n Q - S^2;  s_var < 1.0 returns 0.0 *)
(*   cross = SUM (src - s_mean) * normalized = (n A - S T) / (n q qt)      *)
(*           with A = SUM src * tpl.data over the window and T = tpl.sum   *)
(*   result = cross * inv_std_n / s_std = (n A - S T) / sqrt(dsvar * dvar) *)
(* A uniform template has normalized = 0 everywhere, so cross = 0.         *)
(***************************************************************************)
RECURSIVE CrossRow(_, _, _, _, _, _)
\* SUM src[src_row + tx] * tpl.data[tpl_idx + tx] for tx in lo .. hi - 1
CrossRow(src, src_row, tdata, tpl_idx, lo, hi) ==
    IF hi <= lo THEN 0
    ELSE IF hi - lo = 1 THEN At(src, src_row + lo) * At(tdata, tpl_idx + lo)
    ELSE CrossRow(src, src_row, tdata, tpl_idx, lo, Mid(lo, hi))
         + CrossRow(src, src_row, tdata, tpl_idx, Mid(lo, hi), hi)

RECURSIVE CrossRows(_, _, _, _, _, _, _)
\* the rows ty in lo .. hi - 1 of the cross loop; row ty starts at tpl_idx = ty * tw
CrossRows(src, src_width, tpl, x, y, lo, hi) ==
    IF hi <= lo THEN 0
    ELSE IF hi - lo = 1
    THEN CrossRow(src, (y + lo) * src_width + x, tpl.data, lo * tpl.width, 0, tpl.width)
    ELSE CrossRows(src, src_width, tpl, x, y, lo, Mid(lo, hi))
         + CrossRows(src, src_width, tpl, x, y, Mid(lo, hi), hi)

compute_ncc(src, q, src_width, integral, tpl, x, y) ==
    LET tw == tpl.width
        th == tpl.height
        n == tw * th
        st == get_stats(integral, x, y, tw, th)
        dsvar == BSub(BProd(n, st[2]), BProd(st[1], st[1]))
    IN  IF BCmp(dsvar, BProd(n * q, n * q)) = -1 THEN ScoreZero
        ELSE IF tpl.dvar = <<>> THEN ScoreZero
        ELSE LET a == BProd(n, CrossRows(src, src_width, tpl, x, y, 0, th))
                 b == BProd(st[1], tpl.sum)
                 c == BCmp(a, b)
                 num == IF c = 1 THEN BSub(a, b) ELSE BSub(b, a)
             IN  IF c = 0 THEN ScoreZero
                 ELSE [sg |-> c, sq |-> BMul(num, num), d |-> BMul(dsvar, tpl.dvar)]

(***************************************************************************)
(* Results.  Option<MatchResult> is a sequence of length 0 (None) or 1     *)
(* (Some).  Every strategy returns its value together with the work it     *)
(* did: integrals counts the IntegralImage::new calls and evals the        *)
(* compute_ncc calls on the path taken.                                    *)
(***************************************************************************)
None == <<>>
Some(m) == <<m>>
MatchResult(b) == [x |-> b[1], y |-> b[2], confidence |-> b[3]]
Ret(v, i, e) == [res |-> v, integrals |-> i, evals |-> e]

\* the final test of search_best and search_region
AtLeast(best, threshold) ==
    IF ScoreGe(best[3], ThScore(threshold)) THEN Some(MatchResult(best)) ELSE None

(***************************************************************************)
(* Full search (search_best).                                              *)
(***************************************************************************)
RECURSIVE RowScan(_, _, _, _, _, _, _, _, _)
\* the loop  for x in x0 ..= x2  of one row, from row_best
RowScan(src, q, sw, integral, tpl, y, x0, x2, row_best) ==
    IF x0 > x2 THEN row_best
    ELSE LET score == compute_ncc(src, q, sw, integral, tpl, x0, y)
         IN  RowScan(src, q, sw, integral, tpl, y, x0 + 1, x2,
                     IF ScoreGt(score, row_best[3]) THEN <<x0, y, score>> ELSE row_best)

\* the row-best over  0 .. end_x  instead of  0 ..= end_x
RowBest_exclusive(src, q, sw, integral, tpl, y, end_x) ==
    RowScan(src, q, sw, integral, tpl, y, 0, end_x - 1, <<0, y, ScoreMinusOne>>)

\* the closure of map: the row-best of row y
RowBest(src, q, sw, integral, tpl, y, end_x) ==
    RowScan(src, q, sw, integral, tpl, y, 0, end_x, <<0, y, ScoreMinusOne>>)

\* the two closures of reduce
ReduceIdentity == <<0, 0, ScoreMinusOne>>
\* the reduction keeping its left operand on a tie
ReduceOp_keep_left(a, b) == IF ScoreGe(a[3], b[3]) THEN a ELSE b

ReduceOp(a, b) == IF ScoreGt(a[3], b[3]) THEN a ELSE b

\* rayon may insert the identity on either side of any partial result
WithIdentity(S) ==
    S \cup {ReduceOp(ReduceIdentity, s) : s \in S} \cup {ReduceOp(s, ReduceIdentity) : s \in S}

RECURSIVE Reduce(_, _, _)
\* every value a parallel reduction of rows[lo .. hi] can produce: the items
\* stay in order, the grouping and the identities are the scheduler's
Reduce(rows, lo, hi) ==
    IF lo > hi THEN {ReduceIdentity}
    ELSE IF lo = hi THEN WithIdentity({rows[lo]})
    ELSE WithIdentity(UNION {{ReduceOp(a, b) : a \in Reduce(rows, lo, k),
                                                b \in Reduce(rows, k + 1, hi)}
                             : k \in lo..(hi - 1)})

\* the set of outcomes of search_best
search_best(src, q, sw, sh, tpl, threshold) ==
    LET tw == tpl.width
        th == tpl.height
    IN  IF tw > sw \/ th > sh THEN {Ret(None, 0, 0)}
        ELSE LET integral == IntegralImage_new(src, sw, sh)
                 end_x == sw - tw
                 end_y == sh - th
                 \* the row-bests in row order, each computed once
                 rows == [i \in 1..(end_y + 1) |->
                             RowBest(src, q, sw, integral, tpl, i - 1, end_x)] \o <<>>
             IN  {Ret(AtLeast(best, threshold), 1, (end_x + 1) * (end_y + 1))
                  : best \in Reduce(rows, 1, end_y + 1)}

(***************************************************************************)
(* Region search (search_region): sequential, rows y1 ..= y2, x1 ..= x2.   *)
(***************************************************************************)
RECURSIVE RegionScan(_, _, _, _, _, _, _, _, _, _)
RegionScan(src, q, sw, integral, tpl, x1, x2, y0, y2, best) ==
    IF y0 > y2 THEN best
    ELSE RegionScan(src, q, sw, integral, tpl, x1, x2, y0 + 1, y2,
                    RowScan(src, q, sw, integral, tpl, y0, x1, x2, best))

search_region(src, q, sw, sh, tpl, x1, y1, x2, y2, threshold) ==
    LET integral == IntegralImage_new(src, sw, sh)
        best == RegionScan(src, q, sw, integral, tpl, x1, x2, y1, y2,
                           <<0, 0, ScoreMinusOne>>)
        nx == IF x2 >= x1 THEN x2 - x1 + 1 ELSE 0
        ny == IF y2 >= y1 THEN y2 - y1 + 1 ELSE 0
    IN  Ret(AtLeast(best, threshold), 1, nx * ny)

(***************************************************************************)
(* Downsampler (downsample).  The block mean sum / scale^2 is kept as the  *)
(* numerator sum; the caller multiplies the denominator by scale^2.        *)
(***************************************************************************)
RECURSIVE BlockRow(_, _, _, _)
\* SUM src[base + dx] for dx in 0 .. k - 1
BlockRow(src, base, k, acc) ==
    IF k = 0 THEN acc ELSE BlockRow(src, base, k - 1, acc + At(src, base + k - 1))

RECURSIVE BlockSum(_, _, _, _, _, _)
\* SUM over dy in 0 .. k - 1, dx in 0 .. scale - 1
BlockSum(src, sw, scale, x, y, k) ==
    IF k = 0 THEN 0
    ELSE BlockSum(src, sw, scale, x, y, k - 1)
         + BlockRow(src, (y * scale + k - 1) * sw + x * scale, scale, 0)

downsample(src, sw, sh, scale) ==
    LET nw == sw \div scale
        nh == sh \div scale
    IN  <<[i \in 1..(nw * nh) |->
              BlockSum(src, sw, scale, (i - 1) % nw, (i - 1) \div nw, scale)],
          nw, nh>>

(***************************************************************************)
(* Pyramid strategy (pyramid_match).                                       *)
(***************************************************************************)
min_tpl_size == 16

RECURSIVE Pow2From(_, _)
Pow2From(n, p) == IF p >= n THEN p ELSE Pow2From(n, 2 * p)

\* usize::next_power_of_two: the smallest power of two >= n (1 for n = 0)
next_power_of_two(n) == Pow2From(n, 1)

\* the scale without the rounding to a power of two
pyramid_scale_unrounded(tw, th) ==
    LET max_scale == Min(tw, th) \div min_tpl_size
    IN  Max(Min(max_scale, 8), 1)

\* let scale = max_scale.min(8).next_power_of_two().max(1)
pyramid_scale(tw, th) ==
    LET max_scale == Min(tw, th) \div min_tpl_size
    IN  Max(next_power_of_two(Min(max_scale, 8)), 1)

saturating_sub(a, b) == IF a > b THEN a - b ELSE 0

\* the refinement rectangle without the cap at the last admissible alignment
refine_region_uncapped(sw, sh, tw, th, scale, coarse_x, coarse_y) ==
    LET margin == scale * 4
        cx == coarse_x * scale
        cy == coarse_y * scale
    IN  [x1 |-> saturating_sub(cx, margin), y1 |-> saturating_sub(cy, margin),
         x2 |-> cx + margin, y2 |-> cy + margin]

\* the rectangle (x1, y1) .. (x2, y2) searched around the coarse match
refine_region(sw, sh, tw, th, scale, coarse_x, coarse_y) ==
    LET margin == scale * 4
        cx == coarse_x * scale
        cy == coarse_y * scale
    IN  [x1 |-> saturating_sub(cx, margin), y1 |-> saturating_sub(cy, margin),
         x2 |-> Min(cx + margin, saturating_sub(sw, tw)),
         y2 |-> Min(cy + margin, saturating_sub(sh, th))]

\* the refinement of one coarse outcome c (a Ret of the coarse search_best)
pyramid_refine(src, sw, sh, tpl_data, tw, th, threshold, scale, c) ==
    IF c.res = None THEN c
    ELSE LET coarse == c.res[1]
             rg == refine_region(sw, sh, tw, th, scale, coarse.x, coarse.y)
             x1 == rg.x1
             y1 == rg.y1
             x2 == rg.x2
             y2 == rg.y2
             tpl == Template_new(tpl_data, tw, th)
             r == search_region(src, 1, sw, sh, tpl, x1, y1, x2, y2, threshold)
         IN  Ret(r.res, c.integrals + r.integrals, c.evals + r.evals)

\* the set of outcomes of pyramid_match
pyramid_match(src, sw, sh, tpl_data, tw, th, threshold) ==
    IF tw > sw \/ th > sh THEN {Ret(None, 0, 0)}
    ELSE LET scale == pyramid_scale(tw, th)
         IN  IF scale >= 4
             THEN LET ss == downsample(src, sw, sh, scale)
                      st == downsample(tpl_data, tw, th, scale)
                      small_template == Template_new(st[1], st[2], st[3])
                  IN  {pyramid_refine(src, sw, sh, tpl_data, tw, th, threshold, scale, c)
                       : c \in search_best(ss[1], scale * scale, ss[2], ss[3],
                                           small_template, Times(threshold, 1, 2))}
             ELSE search_best(src, 1, sw, sh, Template_new(tpl_data, tw, th), threshold)

(***************************************************************************)
(* Multi-match strategy (match_multi): sweep, refinement, sort; the NMS    *)
(* loop is stepped by the actions below.                                   *)
(***************************************************************************)
step == 2

RECURSIVE SweepRow(_, _, _, _, _, _, _, _, _)
\* the loop  for xi in xi0 ..= end_x / step  of row y
SweepRow(src, sw, integral, tpl, y, xi0, end_x, threshold, row_candidates) ==
    IF xi0 > end_x \div step THEN row_candidates
    ELSE LET x == xi0 * step
             score == compute_ncc(src, 1, sw, integral, tpl, x, y)
         IN  SweepRow(src, sw, integral, tpl, y, xi0 + 1, end_x, threshold,
                      IF ScoreGe(score, ThScore(Times(threshold, 9, 10)))
                      THEN Append(row_candidates, <<x, y, score>>)
                      ELSE row_candidates)

RECURSIVE Sweep(_, _, _, _, _, _, _, _)
\* flat_map + collect keep the rows in order: rows yi0 ..= end_y / step
Sweep(src, sw, integral, tpl, yi0, end_x, end_y, threshold) ==
    IF yi0 > end_y \div step THEN <<>>
    ELSE SweepRow(src, sw, integral, tpl, yi0 * step, 0, end_x, threshold, <<>>)
         \o Sweep(src, sw, integral, tpl, yi0 + 1, end_x, end_y, threshold)

RECURSIVE RefineScan(_, _, _, _, _, _, _, _, _, _)
\* the loops  for dy in 0 .. step, for dx in 0 .. step  flattened: k = dy * step + dx
RefineScan(src, sw, integral, tpl, cx, cy, end_x, end_y, k, best) ==
    IF k >= step * step THEN best
    ELSE LET x == Min(cx + (k % step), end_x)
             y == Min(cy + (k \div step), end_y)
             score == compute_ncc(src, 1, sw, integral, tpl, x, y)
         IN  RefineScan(src, sw, integral, tpl, cx, cy, end_x, end_y, k + 1,
                        IF ScoreGt(score, best[3]) THEN <<x, y, score>> ELSE best)

\* the closure of filter_map for the candidate c
Refine(src, sw, integral, tpl, c, end_x, end_y, threshold) ==
    AtLeast(RefineScan(src, sw, integral, tpl, c[1], c[2], end_x, end_y, 0,
                       <<c[1], c[2], ScoreMinusOne>>), threshold)

RECURSIVE RefineAll(_, _, _, _, _, _, _, _)
RefineAll(src, sw, integral, tpl, candidates, end_x, end_y, threshold) ==
    IF candidates = <<>> THEN <<>>
    ELSE Refine(src, sw, integral, tpl, Head(candidates), end_x, end_y, threshold)
         \o RefineAll(src, sw, integral, tpl, Tail(candidates), end_x, end_y, threshold)

RECURSIVE InsertSorted(_, _)
\* sort_by(|a, b| b.confidence.partial_cmp(&a.confidence)) is stable: r goes
\* after every element whose confidence is >= its own
InsertSorted(sorted, r) ==
    IF sorted = <<>> THEN <<r>>
    ELSE IF ScoreGe(Head(sorted).confidence, r.confidence)
         THEN <<Head(sorted)>> \o InsertSorted(Tail(sorted), r)
         ELSE <<r>> \o sorted

RECURSIVE SortByConfidence(_)
SortByConfidence(results) ==
    IF results = <<>> THEN <<>>
    ELSE InsertSorted(SortByConfidence(SubSeq(results, 1, Len(results) - 1)),
                      results[Len(results)])

\* match_multi after its guard, up to and including results.sort_by: the
\* sorted refined list, the candidates it came from, and the work done
match_multi_sweep(src, sw, sh, tpl_data, tw, th, threshold) ==
    LET integral == IntegralImage_new(src, sw, sh)
        tpl == Template_new(tpl_data, tw, th)
        end_x == sw - tw
        end_y == sh - th
        candidates == Sweep(src, sw, integral, tpl, 0, end_x, end_y, threshold)
        results == RefineAll(src, sw, integral, tpl, candidates, end_x, end_y, threshold)
        nx == IF end_x >= 0 THEN end_x \div step + 1 ELSE 0
        ny == IF end_y >= 0 THEN end_y \div step + 1 ELSE 0
    IN  [results |-> SortByConfidence(results), candidates |-> candidates,
         integrals |-> 1, evals |-> nx * ny + step * step * Len(candidates)]

\* what return vec![] leaves: nothing to walk, no work done
NoWork == [results |-> <<>>, candidates |-> <<>>, integrals |-> 0, evals |-> 0]

\* match_multi returning early only when the template exceeds both dimensions
match_multi_guard_and(src, sw, sh, tpl_data, tw, th, threshold) ==
    IF tw > sw /\ th > sh THEN NoWork
    ELSE match_multi_sweep(src, sw, sh, tpl_data, tw, th, threshold)

\* match_multi from its first line to results.sort_by
match_multi_sorted(src, sw, sh, tpl_data, tw, th, threshold) ==
    IF tw > sw \/ th > sh THEN NoWork
    ELSE match_multi_sweep(src, sw, sh, tpl_data, tw, th, threshold)

\* overlaps with the template's width and height exchanged
overlaps_swapped(filtered, r, tw, th) ==
    \E i \in 1..Len(filtered) :
        LET f == filtered[i]
            dx == Abs(r.x - f.x)
            dy == Abs(r.y - f.y)
        IN  dx < th \div 2 /\ dy < tw \div 2

\* the closure of filtered.iter().any for the result r
overlaps(filtered, r, tw, th) ==
    \E i \in 1..Len(filtered) :
        LET f == filtered[i]
            dx == Abs(r.x - f.x)
            dy == Abs(r.y - f.y)
        IN  dx < tw \div 2 /\ dy < th \div 2

(***************************************************************************)
(* State.  One call of the engine per behaviour: the inputs are fixed by   *)
(* Init, the threshold and max_count are chosen when the entry point is    *)
(* called, and pc is the position of the caller.                           *)
(***************************************************************************)
VARIABLES
    src, sw, sh,            \* the source buffer and its dimensions
    tpl_data, tw, th,       \* the template buffer and its dimensions
    threshold, max_count,   \* the arguments of the call in progress
    pc,                     \* "idle", "single", "both", "nms", "multi", "integral", "scaled"
    scale,                  \* the local scale of pyramid_match
    single,                 \* what pyramid_match returned
    full,                   \* what search_best returned at full resolution
    multi,                  \* match_multi: the sorted results, candidates, work
    filtered, ri,           \* match_multi: the accepted list and the loop position
    integral,               \* what IntegralImage::new returned
    region                  \* pyramid_match: the coarse match and its refinement rectangle

vars == <<src, sw, sh, tpl_data, tw, th, threshold, max_count, pc, scale,
          single, full, multi, filtered, ri, integral, region>>

inputs == <<src, sw, sh, tpl_data, tw, th>>

(***************************************************************************)
(* Inputs.                                                                 *)
(***************************************************************************)
MaxW == 6
MaxH == 3
MaxCount == 2
MaxOff == 1
MaxDim == 150

Thresholds == {<<-1, 1>>, <<0, 1>>, <<4, 5>>, <<1, 1>>}
PyrThresholds == {<<1, 2>>}

Patterns ==
    { [data |-> <<0, 10, 10, 0>>, w |-> 2, h |-> 2],
      [data |-> <<0, 10, 20, 30, 30, 20, 10, 0>>, w |-> 4, h |-> 2],
      [data |-> <<0, 10>>, w |-> 2, h |-> 1],
      [data |-> <<4, 5, 5, 4>>, w |-> 2, h |-> 2],
      [data |-> <<5, 5, 5, 5>>, w |-> 2, h |-> 2] }

Invert(v) == 30 - v

\* the buffer src with the pattern pat (inverted if inv) written at (px, py)
Paste(data, w, pat, px, py, inv) ==
    [i \in 1..Len(data) |->
        LET x == (i - 1) % w
            y == (i - 1) \div w
        IN  IF x >= px /\ x < px + pat.w /\ y >= py /\ y < py + pat.h
            THEN LET v == At(pat.data, (y - py) * pat.w + (x - px))
                 IN  IF inv THEN Invert(v) ELSE v
            ELSE data[i]]

\* the scenes of w x h pixels: a background of 5 with the pattern written at one
\* place (as it is or inverted) or at two places
Scenes(w, h, pat) ==
    LET flat == [i \in 1..(w * h) |-> 5]
        Pos == (0..(w - pat.w)) \X (0..(h - pat.h))
    IN  IF Pos = {} THEN {flat}
        ELSE {Paste(Paste(flat, w, pat, p1[1], p1[2], FALSE), w, pat, p2[1], p2[2], inv)
              : <<p1, p2, inv>> \in
                  {t \in Pos \X Pos \X BOOLEAN :
                      \/ t[1] = t[2]
                      \/ ~t[3] /\ t[1][2] * w + t[1][1] < t[2][2] * w + t[2][1]}}

\* the pixel (x, y) of the large test images
PyrKinds == 1..6
PyrPixel(kind, x, y) ==
    CASE kind = 1 -> 100 * ((x + y) % 2)
      [] kind = 2 -> 100 * (((x \div 2) + (y \div 2)) % 2)
      [] kind = 3 -> 100 * (((x \div 8) + (y \div 8)) % 2)
      [] kind = 4 -> (3 * x + 7 * y) % 101
      [] kind = 5 -> (x + y) % 2
      [] kind = 6 -> (x * x + 5 * y * y + x * y) % 97

PyrSize == 4 * min_tpl_size

NoRegion == [coarse_x |-> 0, coarse_y |-> 0, x1 |-> 0, y1 |-> 0, x2 |-> 0, y2 |-> 0,
             evals |-> 0]

Idle ==
    /\ threshold = <<0, 1>> /\ max_count = 0 /\ pc = "idle" /\ scale = 0
    /\ single = Ret(None, 0, 0) /\ full = Ret(None, 0, 0)
    /\ multi = NoWork
    /\ filtered = <<>> /\ ri = 0
    /\ integral = [sum |-> <<>>, sq_sum |-> <<>>, width |-> 0]
    /\ region = NoRegion

\* small sources and templates
Init ==
    /\ \E w \in 1..MaxW, h \in 1..MaxH, pat \in Patterns :
          /\ sw = w /\ sh = h
          /\ src \in Scenes(w, h, pat)
          /\ tpl_data = pat.data /\ tw = pat.w /\ th = pat.h
    /\ Idle

\* templates of PyrSize x PyrSize cut at (ox, oy) from a source that is
\* up to MaxOff pixels larger
InitPyr ==
    /\ \E kind \in PyrKinds, dw \in 0..MaxOff, dh \in 0..MaxOff :
       \E ox \in 0..dw, oy \in 0..dh :
          /\ sw = PyrSize + dw /\ sh = PyrSize + dh
          /\ src = [i \in 1..(sw * sh) |-> PyrPixel(kind, (i - 1) % sw, (i - 1) \div sw)]
          /\ tw = PyrSize /\ th = PyrSize
          /\ tpl_data = [i \in 1..(tw * th) |->
                            At(src, (oy + ((i - 1) \div tw)) * sw + ox + ((i - 1) % tw))]
    /\ Idle

\* template dimensions only
InitScale ==
    /\ src = <<>> /\ sw = 0 /\ sh = 0 /\ tpl_data = <<>>
    /\ tw \in 1..MaxDim /\ th \in 1..MaxDim
    /\ Idle

\* template sizes on the coarse path (scale 4 and scale 8) and how much larger
\* the source is: every slack up to MaxSlack in one axis against a few in the
\* other.  Only the dimensions enter the refinement rectangle; the buffers hold
\* sw * sh and tw * th pixels (checked by find_template_raw).
MaxSlack == 41
RegionTemplates == {<<48, 48>>, <<51, 64>>, <<64, 51>>, <<80, 80>>, <<83, 128>>, <<128, 83>>}
RegionSlacks ==
    LET few == {0, 5, MaxSlack}
    IN  ((0..MaxSlack) \X few) \cup (few \X (0..MaxSlack))

InitRegion ==
    /\ src = <<>> /\ tpl_data = <<>>
    /\ \E t \in RegionTemplates, d \in RegionSlacks :
          /\ tw = t[1] /\ th = t[2]
          /\ sw = t[1] + d[1] /\ sh = t[2] + d[2]
    /\ Idle

(***************************************************************************)
(* Actions.                                                                *)
(***************************************************************************)
\* findSingle: pyramid_match(src, sw, sh, tpl_data, tw, th, t)
PyramidMatchWith(T) ==
    /\ pc = "idle"
    /\ \E t \in T :
          /\ threshold' = t
          /\ single' \in pyramid_match(src, sw, sh, tpl_data, tw, th, t)
    /\ scale' = IF tw > sw \/ th > sh THEN 0 ELSE pyramid_scale(tw, th)
    /\ pc' = "single"
    /\ UNCHANGED <<inputs, max_count, full, multi, filtered, ri, integral, region>>

PyramidMatch == PyramidMatchWith(Thresholds)
PyramidMatchPyr == PyramidMatchWith(PyrThresholds)

\* the forced full-resolution search of the same call
SearchBest ==
    /\ pc = "single"
    /\ full' \in search_best(src, 1, sw, sh, Template_new(tpl_data, tw, th), threshold)
    /\ pc' = "both"
    /\ UNCHANGED <<inputs, threshold, max_count, scale, single, multi, filtered, ri,
                   integral, region>>

\* findAll: match_multi(src, sw, sh, tpl_data, tw, th, t, k) up to the NMS loop
MatchMulti ==
    /\ pc = "idle"
    /\ \E t \in Thresholds :
          LET m == match_multi_sorted(src, sw, sh, tpl_data, tw, th, t)
          IN  /\ threshold' = t
              /\ multi' = m
              /\ pc' = IF m.results = <<>> THEN "multi" ELSE "nms"
    /\ max_count' \in 0..MaxCount
    /\ filtered' = <<>>
    /\ ri' = 1
    /\ UNCHANGED <<inputs, scale, single, full, integral, region>>

\* one iteration of  for r in results
NmsStep ==
    /\ pc = "nms"
    /\ LET r == multi.results[ri]
       IN  IF ~overlaps(filtered, r, tw, th)
           THEN /\ filtered' = Append(filtered, r)
                /\ pc' = IF Len(filtered') >= max_count \/ ri = Len(multi.results)
                         THEN "multi" ELSE "nms"
           ELSE /\ filtered' = filtered
                /\ pc' = IF ri = Len(multi.results) THEN "multi" ELSE "nms"
    /\ ri' = ri + 1
    /\ UNCHANGED <<inputs, threshold, max_count, scale, single, full, multi, integral,
                   region>>

\* IntegralImage::new(src, sw, sh)
IntegralNew ==
    /\ pc = "idle"
    /\ integral' = IntegralImage_new(src, sw, sh)
    /\ pc' = "integral"
    /\ UNCHANGED <<inputs, threshold, max_count, scale, single, full, multi, filtered, ri,
                   region>>

\* the scale computation of pyramid_match alone
PyramidScale ==
    /\ pc = "idle"
    /\ scale' = pyramid_scale(tw, th)
    /\ pc' = "scaled"
    /\ UNCHANGED <<inputs, threshold, max_count, single, full, multi, filtered, ri,
                   integral, region>>

\* pyramid_match on the coarse path, up to the call of search_region: the
\* coarse search_best returns some alignment of the downsampled template in the
\* downsampled source, and the rectangle is computed from it
CoarseMatch ==
    /\ pc = "idle"
    /\ ~(tw > sw \/ th > sh)
    /\ pyramid_scale(tw, th) >= 4
    /\ scale' = pyramid_scale(tw, th)
    /\ LET ssw == sw \div scale'
           ssh == sh \div scale'
           stw == tw \div scale'
           sth == th \div scale'
       IN  \E coarse_x \in 0..(ssw - stw), coarse_y \in 0..(ssh - sth) :
              region' = [coarse_x |-> coarse_x, coarse_y |-> coarse_y, evals |-> 0]
                        @@ refine_region(sw, sh, tw, th, scale', coarse_x, coarse_y)
    /\ pc' = "coarse"
    /\ UNCHANGED <<inputs, threshold, max_count, single, full, multi, filtered, ri,
                   integral>>

\* search_region: for y in y1..=y2 { for x in x1..=x2 { compute_ncc } }
SearchRegion ==
    /\ pc = "coarse"
    /\ region' = [region EXCEPT !.evals =
                     IF region.y1 > region.y2 \/ region.x1 > region.x2 THEN 0
                     ELSE (region.y2 - region.y1 + 1) * (region.x2 - region.x1 + 1)]
    /\ pc' = "refined"
    /\ UNCHANGED <<inputs, threshold, max_count, scale, single, full, multi, filtered,
                   ri, integral>>

Next == PyramidMatch \/ SearchBest \/ MatchMulti \/ NmsStep \/ IntegralNew
NextPyr == PyramidMatchPyr \/ SearchBest
NextScale == PyramidScale
NextRegion == CoarseMatch \/ SearchRegion

Spec == Init /\ [][Next]_vars
SpecPyr == InitPyr /\ [][NextPyr]_vars
SpecScale == InitScale /\ [][NextScale]_vars
SpecRegion == InitRegion /\ [][NextRegion]_vars

(***************************************************************************)
(* Properties.                                                             *)
(***************************************************************************)
Fits == tw <= sw /\ th <= sh

RECURSIVE SetSum(_, _, _)
\* SUM data[i] (or data[i]^2) over the set I of indices
SetSum(data, I, sq) ==
    IF I = {} THEN 0
    ELSE LET i == CHOOSE j \in I : TRUE
             v == At(data, i)
         IN  (IF sq THEN v * v ELSE v) + SetSum(data, I \ {i}, sq)

\* the pixels of the rectangle of width w and height h at (x, y)
RectIdx(x, y, w, h) == {j * sw + i : i \in x..(x + w - 1), j \in y..(y + h - 1)}

\* C8: after IntegralImage::new(data, W, H), row 0 and column 0 of sum and
\* sq_sum are zero, and get_stats(x, y, w, h) is exactly the sum and the sum of
\* squares of the pixels of every rectangle inside the image, computed directly.
C8_IntegralExact ==
    pc = "integral" =>
        /\ \A i \in 0..sw : At(integral.sum, i) = 0 /\ At(integral.sq_sum, i) = 0
        /\ \A j \in 0..sh : /\ At(integral.sum, j * (sw + 1)) = 0
                            /\ At(integral.sq_sum, j * (sw + 1)) = 0
        /\ \A x \in 0..sw, y \in 0..sh :
           \A w \in 0..(sw - x), h \in 0..(sh - y) :
               get_stats(integral, x, y, w, h)
                   = <<SetSum(src, RectIdx(x, y, w, h), FALSE),
                       SetSum(src, RectIdx(x, y, w, h), TRUE)>>
        /\ get_stats(integral, 0, 0, sw, sh)[1] = SetSum(src, 0..(sw * sh - 1), FALSE)

C8_Witness ==
    /\ pc = "integral" /\ sw >= 3 /\ sh >= 2
    /\ get_stats(integral, 1, 1, 2, 1)[1] > 10
    /\ get_stats(integral, 0, 0, sw, sh)[2] > get_stats(integral, 1, 1, 2, 1)[2]

\* the spec's order of operations: round up to a power of two, cap at 8, floor at 1
SpecOrderScale(w, h) ==
    Max(Min(next_power_of_two(Min(w, h) \div min_tpl_size), 8), 1)

\* C9: the scale computed by pyramid_match (cap at 8, then round up) equals the
\* spec's order (round up, then cap at 8, then floor at 1) for every template
\* size, is one of 1, 2, 4, 8, and is >= 4 exactly when min(w, h) >= 48.
C9_ScaleOrder ==
    pc = "scaled" =>
        /\ scale = SpecOrderScale(tw, th)
        /\ scale \in {1, 2, 4, 8}
        /\ (scale >= 4) <=> (Min(tw, th) >= 48)

C9_Witness ==
    pc = "scaled" /\ Min(tw, th) \div min_tpl_size > 8 /\ tw # th /\ scale = 8

\* C5: when the template is wider or taller than the source, findSingle
\* (pyramid_match, search_best) returns none and findAll (match_multi) returns an
\* empty list, for every threshold and maxCount, and no alignment is evaluated
\* and no integral image is built.
C5_TooLarge ==
    (tw > sw \/ th > sh) =>
        /\ pc \in {"single", "both"} =>
               single.res = None /\ single.integrals = 0 /\ single.evals = 0
        /\ pc = "both" => full.res = None /\ full.integrals = 0 /\ full.evals = 0
        /\ pc # "nms"
        /\ pc = "multi" => filtered = <<>> /\ multi.integrals = 0 /\ multi.evals = 0

C5_Witness ==
    /\ pc = "multi" /\ tw > sw /\ th <= sh /\ max_count > 0 /\ threshold = <<-1, 1>>
    /\ filtered = <<>>

\* the alignments of the template in the source and the table of their NCC
\* scores, computed once per use
Alignments == (0..(sw - tw)) \X (0..(sh - th))
ScoreTable ==
    LET ii == IntegralImage_new(src, sw, sh)
        tpl == Template_new(tpl_data, tw, th)
    IN  [a \in Alignments |-> compute_ncc(src, 1, sw, ii, tpl, a[1], a[2])] @@ <<>>
IsMax(sc, a, A) == \A b \in A : ScoreGe(sc[a], sc[b])
MaxScore(sc, A) == sc[CHOOSE a \in A : IsMax(sc, a, A)]

\* C6: for a template that fits, search_best returns a match iff the maximum
\* NCC score over all alignments in [0, W-w] x [0, H-h] is >= threshold, and the
\* match is an alignment of that rectangle whose confidence is that maximum.
C6_BestIsMax ==
    (pc = "both" /\ Fits) =>
        LET mx == MaxScore(ScoreTable, Alignments)
        IN  /\ (full.res # None) <=> ScoreGe(mx, ThScore(threshold))
            /\ full.res # None =>
                  /\ <<full.res[1].x, full.res[1].y>> \in Alignments
                  /\ ScoreEq(full.res[1].confidence, mx)

C6_Witness ==
    /\ pc = "both" /\ Fits /\ full.res # None
    /\ full.res[1].x = sw - tw /\ full.res[1].x > 0 /\ full.res[1].y > 0
    /\ ScoreGt(ScoreOne, full.res[1].confidence)
    /\ ScoreGt(full.res[1].confidence, ScoreZero)

\* the maximum-scoring alignment that a serial row-major scan meets first, and
\* the one with the smallest x in the last row that attains the maximum
FirstMax(sc) ==
    LET M == {a \in Alignments : IsMax(sc, a, Alignments)}
    IN  CHOOSE a \in M :
            \A b \in M : a[2] < b[2] \/ (a[2] = b[2] /\ a[1] <= b[1])
LastRowMax(sc) ==
    LET M == {a \in Alignments : IsMax(sc, a, Alignments)}
    IN  CHOOSE a \in M :
            \A b \in M : a[2] > b[2] \/ (a[2] = b[2] /\ a[1] <= b[1])

\* C7 as stated: when several alignments share the maximum score the first one
\* encountered wins (smallest x within a row, the first row among tied rows),
\* whatever the grouping of the reduction and the placement of the identity.
C7_FirstWins ==
    (pc = "both" /\ Fits /\ full.res # None) =>
        <<full.res[1].x, full.res[1].y>> = FirstMax(ScoreTable)

\* C7 amended: among tied rows the row-best that comes last in the reduction
\* order (the right operand) wins, so the winner is the smallest x of the largest
\* y attaining the maximum, for every grouping and every placement of the
\* identity; only a maximum equal to the identity's -1.0 may instead return the
\* identity's own position (0, 0).
C7_LastRowWins ==
    (pc = "both" /\ Fits /\ full.res # None) =>
        \/ <<full.res[1].x, full.res[1].y>> = LastRowMax(ScoreTable)
        \/ /\ ScoreEq(full.res[1].confidence, ScoreMinusOne)
           /\ <<full.res[1].x, full.res[1].y>> = <<0, 0>>

C7_Witness ==
    /\ pc = "both" /\ Fits /\ full.res # None
    /\ ScoreGt(full.res[1].confidence, ScoreZero)
    /\ LET sc == ScoreTable
       IN  /\ FirstMax(sc)[2] < LastRowMax(sc)[2]
           /\ <<full.res[1].x, full.res[1].y>> = LastRowMax(sc)

\* C2: for every source, template, threshold and maxCount K >= 0, the list
\* returned by findAll (match_multi) has length at most K.
C2_AtMostK == pc = "multi" => Len(filtered) <= max_count

\* C3: the list accepted by match_multi is in non-increasing order of confidence
\* and every two of its matches are at least floor(w/2) apart in x or at least
\* floor(h/2) apart in y, after every step of the NMS loop and on return.
C3_SortedSeparated ==
    pc \in {"nms", "multi"} =>
        \A i \in 1..Len(filtered), j \in 1..Len(filtered) :
            i < j =>
                /\ ScoreGe(filtered[i].confidence, filtered[j].confidence)
                /\ \/ Abs(filtered[i].x - filtered[j].x) >= tw \div 2
                   \/ Abs(filtered[i].y - filtered[j].y) >= th \div 2

\* the loop has walked two results and suppressed the weaker, overlapping one
C3_Witness ==
    /\ pc = "multi" /\ tw \div 2 > 1 /\ th \div 2 > 0
    /\ Len(multi.results) = 2 /\ ri = 3 /\ Len(filtered) = 1 /\ max_count = 2
    /\ ScoreGt(multi.results[1].confidence, multi.results[2].confidence)
    /\ ScoreGt(multi.results[2].confidence, ScoreZero)

\* the 2 x 2 cell of the alignment grid with its top-left corner at (cx, cy),
\* clamped to the admissible alignments
Cell(cx, cy) ==
    {<<Min(cx + dx, sw - tw), Min(cy + dy, sh - th)>> : dx \in 0..(step - 1),
                                                        dy \in 0..(step - 1)}

\* C10: for every cell of the alignment grid whose maximum NCC score is >=
\* threshold (a threshold of the valid range [0, 1]), the refined list of
\* match_multi (before NMS) contains that cell's maximum-scoring alignment with
\* its exact score.
C10_CellExact ==
    (pc \in {"nms", "multi"} /\ Fits /\ threshold[1] >= 0) =>
        LET sc == ScoreTable
        IN  \A a \in Alignments :
                (a[1] % step = 0 /\ a[2] % step = 0
                    /\ ScoreGe(MaxScore(sc, Cell(a[1], a[2])), ThScore(threshold))) =>
                    \E i \in 1..Len(multi.results) :
                        LET r == multi.results[i]
                        IN  /\ <<r.x, r.y>> \in Cell(a[1], a[2])
                            /\ IsMax(sc, <<r.x, r.y>>, Cell(a[1], a[2]))
                            /\ ScoreEq(r.confidence, sc[<<r.x, r.y>>])

NonUniform(data) == \E i, j \in 1..Len(data) : data[i] # data[j]

\* C1: findSingle (pyramid_match) called with a non-uniform image s as both
\* source and template and a threshold <= 1.0 returns the match (0, 0) with
\* confidence 1.0.
C1_SelfMatch ==
    (pc = "single" /\ sw = tw /\ sh = th /\ src = tpl_data /\ NonUniform(src)) =>
        /\ single.res # None
        /\ single.res[1].x = 0 /\ single.res[1].y = 0
        /\ ScoreEq(single.res[1].confidence, ScoreOne)

\* C4: for a template with min(w, h) >= 64 and threshold 0.5, pyramid_match and
\* a full-resolution search_best return the same result: both none, or matches
\* with the same coordinates and the same confidence.
C4_PyramidEqualsFull ==
    (pc = "both" /\ Min(tw, th) >= 64 /\ threshold = <<1, 2>>) =>
        \/ single.res = None /\ full.res = None
        \/ /\ single.res # None /\ full.res # None
           /\ single.res[1].x = full.res[1].x /\ single.res[1].y = full.res[1].y
           /\ ScoreEq(single.res[1].confidence, full.res[1].confidence)

\* the indices get_stats reads in sum and sq_sum for the window at (x, y)
IntegralReads(width, x, y, w, h) ==
    {y * width + x, y * width + (x + w), (y + h) * width + x, (y + h) * width + (x + w)}

\* the indices compute_ncc reads in src at the four corners of the window at
\* (x, y): src_row + tx grows with ty and tx, so the first and the last
\* iteration of each loop bound every read
SrcReads(src_width, w, h, x, y) ==
    {(y + ty) * src_width + x + tx : ty \in {0, h - 1}, tx \in {0, w - 1}}

\* C11: on the coarse path of pyramid_match, for every coarse match the coarse
\* search can return, 0 <= x1 <= x2 <= W - w and 0 <= y1 <= y2 <= H - h; hence
\* search_region evaluates at least one alignment, and every alignment it passes
\* to compute_ncc reads the source buffer and the integral image inside their
\* arrays.
C11_RegionInside ==
    (pc \in {"coarse", "refined"}) =>
        /\ 0 <= region.x1 /\ region.x1 <= region.x2 /\ region.x2 <= sw - tw
        /\ 0 <= region.y1 /\ region.y1 <= region.y2 /\ region.y2 <= sh - th
        /\ pc = "refined" =>
              /\ region.evals >= 1
              /\ \A x \in region.x1..region.x2, y \in region.y1..region.y2 :
                    /\ \A i \in IntegralReads(sw + 1, x, y, tw, th) :
                          0 <= i /\ i < (sw + 1) * (sh + 1)
                    /\ \A i \in SrcReads(sw, tw, th, x, y) :
                          0 <= i /\ i < sw * sh

\* a scale-8 refinement away from the left edge whose right side is cut by the cap
C11_Witness ==
    /\ pc = "refined" /\ scale = 8
    /\ region.x1 > 0
    /\ region.x2 = sw - tw /\ region.coarse_x * scale + scale * 4 > sw - tw
    /\ region.y1 = 0 /\ region.evals > 1

=========================================================================
